---- MODULE Spec2Model ----
(***************************************************************************)
(* SignalHash referral splitter: the settlement engine of the account and  *)
(* the wire messages its clients build.                                    *)
(*                                                                         *)
(* Amounts are nanotons, as in the sources (toNano).  The contract itself  *)
(* computes on 257-bit integers; the amounts drawn here stay below 2^31,   *)
(* so no operation of the engine wraps, and the one product that would     *)
(* leave that range (distributable * bps) is evaluated by an exact         *)
(* quotient/remainder decomposition.                                       *)
(***************************************************************************)
EXTENDS Integers, Sequences, FiniteSets, TLC

VARIABLES state, config, last, ownerReserve, codec, ledger, cli

vars == <<state, config, last, ownerReserve, codec, ledger, cli>>

engineVars == <<state, config, last, ownerReserve, ledger>>

----------------------------------------------------------------------------
(* Identities: the treasuries opened by the test harness.                  *)

OwnerId == "owner"
PayerId == "payer"
ToAId == "toA"
ToBId == "toB"

Identities == {OwnerId, PayerId, ToAId, ToBId}

(* const invoiceId *)
invoiceId == "Invoice:03603999296428015565-7"

----------------------------------------------------------------------------
(* Program constants.                                                      *)

MIN_PAYMENT == 200000000

MIN_RESERVE == 20000000

DEF_BPS_B == 1000

BPS_DENOMINATOR == 10000

(* The 32-bit opcodes, each kept as its two big-endian 16-bit halves       *)
(* <<high, low>>: 0x5032a9ac and 0xccce9a8a.  The fixture's decimal        *)
(* literal 3436092042 is 52430 * 65536 + 39562, the same 32 bits as        *)
(* 0xccce9a8a.                                                             *)
TagSetReserve == <<20530, 43436>>
TagPromote == <<52430, 39562>>
TagFixtureMisread == <<52445, 9866>>

TagFixture == <<52430, 39562>>
TagComment == <<0, 0>>

(* 3437045386 = 0xccdd268a, the opcode of no message *)
TagUnknown == <<52445, 9866>>

----------------------------------------------------------------------------
(* Bounds of the model.                                                    *)

MaxBalance == 500000000

(* Senders: the owner, a stranger, and the primary payee. *)
Senders == {OwnerId, PayerId, ToAId}

(* Attached values: nothing, one nanoton under the threshold, the          *)
(* threshold itself, and an amount that no ratio divides evenly.           *)
Values == {0, 199999999, 200000000, 300000007}

(* SetReserve payloads, one of them negative. *)
ReserveChoices == {-1, 100000000, 400000000}

(* Split ratios, inside the range, on its edges and outside it. *)
BpsChoices == {-1, 0, 700, 1000, 10000, 10001}

(* The ratio and the second payee applied to a plain comment. *)
ConfigChoices == {[defaultBps |-> DEF_BPS_B, defaultRecipientB |-> OwnerId],
                  [defaultBps |-> 700, defaultRecipientB |-> ToBId]}

----------------------------------------------------------------------------
(* Cells.  A cell is the sequence of the fields stored into it, each field *)
(* [k, n, s]: its kind, its number and its text.                           *)

Field(k, n, s) == [k |-> k, n |-> n, s |-> s]

beginCell == <<>>

storeUint32(b, tag) == b \o <<Field("uint16", tag[1], ""), Field("uint16", tag[2], "")>>

storeInt257(b, n) == Append(b, Field("int257", n, ""))

storeStringRefTail(b, s) == Append(b, Field("stringRefTail", 0, s))

storeStringTail(b, s) == Append(b, Field("stringTail", 0, s))

storeAddress(b, a) == Append(b, Field("address", 0, a))

(* function buildSetReserve(minReserveNano) *)
buildSetReserveWrongOpcode(minReserveNano) ==
    storeInt257(storeUint32(beginCell, TagPromote), minReserveNano)

buildSetReserve(minReserveNano) ==
    storeInt257(storeUint32(beginCell, TagSetReserve), minReserveNano)

(* function buildSignalHashPromote(memo, refAddr, bpsB) *)
buildSignalHashPromoteInlineMemo(memo, refAddr, bpsB) ==
    storeInt257(storeAddress(storeStringTail(storeUint32(beginCell, TagPromote), memo),
                             refAddr), bpsB)

buildSignalHashPromote(memo, refAddr, bpsB) ==
    storeInt257(storeAddress(storeStringRefTail(storeUint32(beginCell, TagPromote), memo),
                             refAddr), bpsB)

(* function GetContractMemo(bps, toB) *)
GetContractMemoPercent(bps, toB) ==
    storeInt257(storeAddress(storeStringRefTail(storeUint32(beginCell, TagFixture), invoiceId),
                             toB), bps \div 100)

GetContractMemoOtherTag(bps, toB) ==
    storeInt257(storeAddress(storeStringRefTail(storeUint32(beginCell, TagUnknown), invoiceId),
                             toB), bps)

GetContractMemoReordered(bps, toB) ==
    storeAddress(storeInt257(storeStringRefTail(storeUint32(beginCell, TagFixture), invoiceId),
                             bps), toB)

GetContractMemo(bps, toB) ==
    storeInt257(storeAddress(storeStringRefTail(storeUint32(beginCell, TagFixture), invoiceId),
                             toB), bps)

(* comment(text): opcode 0 and the text as a string tail *)
buildComment(text) == storeStringTail(storeUint32(beginCell, TagComment), text)

----------------------------------------------------------------------------
(* MessageCodec: decode.  A payload is [type, minReserve, memo,            *)
(* recipientB, bpsB]; the fields a shape does not carry are 0 or "".       *)

Payload(type, minReserve, memo, recipientB, bpsB) ==
    [type |-> type, minReserve |-> minReserve, memo |-> memo,
     recipientB |-> recipientB, bpsB |-> bpsB]

NoPayload == Payload("None", 0, "", "", 0)

DecodeOk(p) == [ok |-> TRUE, error |-> "", payload |-> p]

DecodeError(e) == [ok |-> FALSE, error |-> e, payload |-> NoPayload]

(* whether field i of the cell exists and is of kind k *)
hasField(c, i, k) == i <= Len(c) /\ c[i].k = k

(* the leading 32 bits, when the cell holds them *)
hasTag(c) == hasField(c, 1, "uint16") /\ hasField(c, 2, "uint16")

loadTag(c) == <<c[1].n, c[2].n>>

decodeSetReserveSigned(c) ==
    IF ~hasField(c, 3, "int257") THEN DecodeError("Truncated")
    ELSE DecodeOk(Payload("SetReserve", c[3].n, "", "", 0))

decodeSetReserve(c) ==
    IF ~hasField(c, 3, "int257") THEN DecodeError("Truncated")
    ELSE IF c[3].n < 0 THEN DecodeError("NegativeAmount")
    ELSE DecodeOk(Payload("SetReserve", c[3].n, "", "", 0))

decodePromote(c) ==
    IF ~(hasField(c, 3, "stringRefTail") /\ hasField(c, 4, "address")
         /\ hasField(c, 5, "int257"))
    THEN DecodeError("Truncated")
    ELSE DecodeOk(Payload("Promote", 0, c[3].s, c[4].s, c[5].n))

decodeComment(c) ==
    DecodeOk(Payload("PlainComment", 0,
                     IF hasField(c, 3, "stringTail") THEN c[3].s ELSE "", "", 0))

decode(c) ==
    IF ~hasTag(c) THEN DecodeError("Truncated")
    ELSE IF loadTag(c) = TagSetReserve THEN decodeSetReserve(c)
    ELSE IF loadTag(c) = TagPromote THEN decodePromote(c)
    ELSE IF loadTag(c) = TagComment THEN decodeComment(c)
    ELSE DecodeError("UnknownTag")

----------------------------------------------------------------------------
(* ReceiptFormatter.                                                       *)

receiptA(memo) == memo \o ", Promote to #SignalHash"

receiptBNoSpace(memo, bps) ==
    memo \o ", Referral" \o ToString(bps \div 100) \o "% from #SignalHash"

receiptB(memo, bps) ==
    memo \o ", Referral " \o ToString(bps \div 100) \o "% from #SignalHash"

----------------------------------------------------------------------------
(* AuthorizationGuard and SettlementEngine.                                *)

isOwner(st, sender) == sender = st.owner

Transfer(to, amount, receipt) == [to |-> to, amount |-> amount, receipt |-> receipt]

max0(x) == IF x > 0 THEN x ELSE 0

(* the balance the reserve is measured against: the one before the payment *)
reserveBalanceProjected(st, value) == st.balance + value

reserveBalance(st, value) == st.balance

(* the reserve still missing *)
neededTopUpUnclamped(minReserve, balance) == minReserve - balance

neededTopUp(minReserve, balance) ==
    IF minReserve > balance THEN minReserve - balance ELSE 0

distributableOfNoTopUp(value, needed) == value

distributableOf(value, needed) == max0(value - needed)

belowThreshold(value) == value < MIN_PAYMENT

validBps(bps) == 0 <= bps /\ bps <= BPS_DENOMINATOR

(* floor(d * bps / 10000) for d >= 0 and 0 <= bps <= 10000: with           *)
(* d = 10000 * q + r the product is 10000 * q * bps + r * bps.             *)
shareB(d, bps) ==
    (d \div BPS_DENOMINATOR) * bps + ((d % BPS_DENOMINATOR) * bps) \div BPS_DENOMINATOR

shareA(d, amountB) == d - amountB

Accepted(st, outbound, d) ==
    [outcome |-> "Accepted", reason |-> "", state |-> st, outbound |-> outbound,
     distributable |-> d]

(* the value of a payment kept by the account *)
retain(st, value, out) == [st EXCEPT !.balance = @ + value - out]

(* a rejection bounces: the state stays as it was and the attached value   *)
(* goes back to the sender                                                 *)
RejectedKeepingValue(st, value, reason) ==
    [outcome |-> "Rejected", reason |-> reason, state |-> retain(st, value, 0),
     outbound |-> <<>>, distributable |-> 0]

Rejected(st, value, reason) ==
    [outcome |-> "Rejected", reason |-> reason, state |-> st, outbound |-> <<>>,
     distributable |-> 0]

(* rule 1 *)
processSetReserve(st, sender, value, p) ==
    IF ~isOwner(st, sender) THEN Rejected(st, value, "Unauthorized")
    ELSE Accepted([retain(st, value, 0) EXCEPT !.minReserve = p.minReserve], <<>>, 0)

settleEmittingZero(st, value, memo, toB, bps) ==
    IF belowThreshold(value) THEN Accepted(retain(st, value, 0), <<>>, 0)
    ELSE LET d == distributableOf(value,
                                  neededTopUp(st.minReserve, reserveBalance(st, value)))
             amountB == shareB(d, bps)
             amountA == shareA(d, amountB)
         IN  Accepted(retain(st, value, amountA + amountB),
                      <<Transfer(st.recipientA, amountA, receiptA(memo)),
                        Transfer(toB, amountB, receiptB(memo, bps))>>, d)

(* rule 2: a payment of value, to be split bps / 10000 with toB *)
settle(st, value, memo, toB, bps) ==
    IF belowThreshold(value) THEN Accepted(retain(st, value, 0), <<>>, 0)
    ELSE LET d == distributableOf(value,
                                  neededTopUp(st.minReserve, reserveBalance(st, value)))
             amountB == shareB(d, bps)
             amountA == shareA(d, amountB)
         IN  IF d = 0 THEN Accepted(retain(st, value, 0), <<>>, 0)
             ELSE Accepted(retain(st, value, amountA + amountB),
                           <<Transfer(st.recipientA, amountA, receiptA(memo)),
                             Transfer(toB, amountB, receiptB(memo, bps))>>, d)

processPromote(st, value, p) ==
    IF ~validBps(p.bpsB) THEN Rejected(st, value, "InvalidSplit")
    ELSE settle(st, value, p.memo, p.recipientB, p.bpsB)

processPlainComment(st, cfg, value, p) ==
    settle(st, value, p.memo, cfg.defaultRecipientB, cfg.defaultBps)

processOwnerExempt(st, cfg, msg) ==
    IF msg.payload.type = "SetReserve"
    THEN processSetReserve(st, msg.sender, msg.value, msg.payload)
    ELSE IF isOwner(st, msg.sender) THEN Accepted(retain(st, msg.value, 0), <<>>, 0)
    ELSE IF msg.payload.type = "Promote"
    THEN processPromote(st, msg.value, msg.payload)
    ELSE processPlainComment(st, cfg, msg.value, msg.payload)

process(st, cfg, msg) ==
    IF msg.payload.type = "SetReserve"
    THEN processSetReserve(st, msg.sender, msg.value, msg.payload)
    ELSE IF msg.payload.type = "Promote"
    THEN processPromote(st, msg.value, msg.payload)
    ELSE processPlainComment(st, cfg, msg.value, msg.payload)

(* the protocol boundary: decode, then the engine *)
receive(st, cfg, sender, value, body) ==
    LET dec == decode(body)
    IN  IF dec.ok THEN process(st, cfg, [sender |-> sender, value |-> value,
                                         payload |-> dec.payload])
        ELSE Rejected(st, value, dec.error)

----------------------------------------------------------------------------
(* The state machine: the account's state, the configuration applied to    *)
(* plain comments, the record of the message processed last, and the       *)
(* reserve carried by the owner's most recent SetReserve (the initial      *)
(* reserve before any).                                                    *)

AccountState(owner, recipientA, minReserve, balance) ==
    [owner |-> owner, recipientA |-> recipientA, minReserve |-> minReserve,
     balance |-> balance]

(* SignalHashReferral.fromInit(owner, toA, MIN_RESERVE) *)
InitStateSwapped == AccountState(ToAId, OwnerId, MIN_RESERVE, 0)

InitStateOwnerPaid == AccountState(OwnerId, OwnerId, MIN_RESERVE, 0)

InitState == AccountState(OwnerId, ToAId, MIN_RESERVE, 0)

Record(sender, value, body, prior, r) ==
    [sender |-> sender, value |-> value, body |-> body, payload |-> decode(body).payload,
     prior |-> prior, outcome |-> r.outcome, reason |-> r.reason,
     outbound |-> r.outbound, distributable |-> r.distributable]

NoRecord ==
    [sender |-> "", value |-> 0, body |-> <<>>, payload |-> NoPayload,
     prior |-> InitState, outcome |-> "None", reason |-> "",
     outbound |-> <<>>, distributable |-> 0]

(* the codec at rest: nothing to encode *)
CodecIdle == [pc |-> "idle", msg |-> NoPayload, cell |-> <<>>, result |-> DecodeOk(NoPayload)]

(* the command line client before it is started *)
CliIdle ==
    [pc |-> "idle", argv |-> <<>>, env |-> [MNEMONIC |-> "", NETWORK |-> "", EXPECTED_WALLET |-> <<>>],
     error |-> "", built |-> FALSE, body |-> <<>>, value |-> 0, wallet |-> <<>>,
     seqno |-> 0, chain |-> 0, polls |-> 0, sent |-> <<>>, report |-> ""]

(* the running totals of a run under audit: nothing received or forwarded *)
LedgerOpen == [received |-> 0, forwarded |-> 0]

Init ==
    /\ state = InitState
    /\ config \in ConfigChoices
    /\ last = NoRecord
    /\ ownerReserve = MIN_RESERVE
    /\ codec = CodecIdle
    /\ ledger = LedgerOpen
    /\ cli = CliIdle

(* the sum of the amounts of a list of transfers *)
RECURSIVE totalOut(_)
totalOut(out) == IF out = <<>> THEN 0 ELSE Head(out).amount + totalOut(Tail(out))

(* one inbound message, processed to completion *)
Handle(sender, value, body) ==
    /\ state.balance + value <= MaxBalance
    /\ LET r == receive(state, config, sender, value, body)
       IN  /\ state' = r.state
           /\ last' = Record(sender, value, body, state, r)
    /\ ownerReserve' = IF decode(body).payload.type = "SetReserve" /\ sender = OwnerId
                       THEN decode(body).payload.minReserve
                       ELSE ownerReserve
    /\ UNCHANGED <<config, codec, cli>>

Deliver(sender, value, body) == Handle(sender, value, body) /\ UNCHANGED ledger

(* set-reserve: a SetReserve built by buildSetReserve *)
SendSetReserve ==
    \E sender \in Senders, value \in Values, m \in ReserveChoices :
        Deliver(sender, value, buildSetReserve(m))

(* promote: a SignalHashPromote built by buildSignalHashPromote, or by the *)
(* fixture GetContractMemo                                                 *)
SendPromote ==
    \E sender \in Senders, value \in Values, bps \in BpsChoices :
        \E body \in {buildSignalHashPromote(invoiceId, ToBId, bps),
                      GetContractMemo(bps, ToBId)} :
            Deliver(sender, value, body)

(* a text comment *)
SendComment ==
    \E sender \in Senders, value \in Values :
        Deliver(sender, value, buildComment(invoiceId))

(* a body no builder produces: empty, cut short, or under another opcode *)
MalformedBodies ==
    {beginCell,
     storeStringRefTail(storeUint32(beginCell, TagPromote), invoiceId),
     storeInt257(storeUint32(beginCell, TagUnknown), 1000)}

SendMalformed ==
    \E sender \in Senders, value \in Values, body \in MalformedBodies :
        Deliver(sender, value, body)

Next == SendSetReserve \/ SendPromote \/ SendComment \/ SendMalformed

Spec == Init /\ [][Next]_vars

----------------------------------------------------------------------------
(* The codec on its own: a message is encoded by the builder of its shape  *)
(* and the cell is decoded again.                                          *)

(* memo and comment texts *)
Memos == {"", invoiceId, "a, b% #"}

(* reserves and ratios put on the wire, valid and not *)
CodecReserves == {-1, 0, 1, 100000000, 400000000}

CodecBps == {-1, 0, 1, 700, 1000, 9999, 10000, 10001}

CodecMessages ==
    {Payload("SetReserve", m, "", "", 0) : m \in CodecReserves}
    \cup {Payload("Promote", 0, memo, ref, bps) :
              memo \in Memos, ref \in Identities, bps \in CodecBps}
    \cup {Payload("PlainComment", 0, text, "", 0) : text \in Memos}

(* the cell a client builds for a message *)
encode(m) ==
    IF m.type = "SetReserve" THEN buildSetReserve(m.minReserve)
    ELSE IF m.type = "Promote" THEN buildSignalHashPromote(m.memo, m.recipientB, m.bpsB)
    ELSE buildComment(m.memo)

EngineAtRest ==
    /\ state = InitState
    /\ config = [defaultBps |-> DEF_BPS_B, defaultRecipientB |-> OwnerId]
    /\ last = NoRecord
    /\ ownerReserve = MIN_RESERVE
    /\ ledger = LedgerOpen

CodecInit ==
    /\ EngineAtRest
    /\ cli = CliIdle
    /\ \E m \in CodecMessages :
          codec = [pc |-> "start", msg |-> m, cell |-> <<>>, result |-> DecodeOk(NoPayload)]

Encode ==
    /\ codec.pc = "start"
    /\ codec' = [codec EXCEPT !.pc = "encoded", !.cell = encode(codec.msg)]
    /\ UNCHANGED <<engineVars, cli>>

Decode ==
    /\ codec.pc = "encoded"
    /\ codec' = [codec EXCEPT !.pc = "decoded", !.result = decode(codec.cell)]
    /\ UNCHANGED <<engineVars, cli>>

CodecNext == Encode \/ Decode

SpecCodec == CodecInit /\ [][CodecNext]_vars

----------------------------------------------------------------------------
(* The account under audit: the same messages, with the value of every     *)
(* accepted message and the amount of every emitted transfer added up.     *)

MaxReceived == 800000000

AuditValues == {199999999, 200000000, 300000007}

AuditBps == {0, 700, 10000, 10001}

AuditBodies ==
    {buildSetReserve(m) : m \in ReserveChoices}
    \cup {GetContractMemo(bps, ToBId) : bps \in AuditBps}
    \cup {buildComment(invoiceId), storeInt257(storeUint32(beginCell, TagUnknown), 1000)}

Audit(sender, value, body) ==
    /\ ledger.received + value <= MaxReceived
    /\ Handle(sender, value, body)
    /\ LET r == receive(state, config, sender, value, body)
       IN  ledger' = IF r.outcome = "Accepted"
                     THEN [received |-> ledger.received + value,
                           forwarded |-> ledger.forwarded + totalOut(r.outbound)]
                     ELSE ledger

AuditNext ==
    \E sender \in {OwnerId, PayerId}, value \in AuditValues, body \in AuditBodies :
        Audit(sender, value, body)

SpecLedger == Init /\ [][AuditNext]_vars

----------------------------------------------------------------------------
(* The command line client: main reads its arguments, builds a body and    *)
(* hands it to sendInternal, which opens the wallet of the mnemonic, sends *)
(* one transfer and polls the wallet's seqno.                              *)

(* what reading past the end of argv gives *)
Undefined == "<undefined>"

Truthy(x) == x \notin {Undefined, ""}

(* Address.parse of a friendly form: the flags are dropped *)
AddressParse(friendly) == friendly[1]

(* Address.toString(): the default friendly form of an address *)
raw(a) == <<a, "bounceable">>

(* the V5R1 wallet of a mnemonic's key on a network *)
walletV5R1(mnemonic, network) ==
    <<"v5r1", mnemonic, IF network = "testnet" THEN -3 ELSE -257>>

(* 1-based args.indexOf(flag), 0 when absent *)
indexOf(args, flag) ==
    IF \E i \in 1..Len(args) : args[i] = flag
    THEN CHOOSE i \in 1..Len(args) : args[i] = flag /\ \A j \in 1..(i - 1) : args[j] # flag
    ELSE 0

getArg(args, flag) ==
    LET i == indexOf(args, flag)
    IN  IF i > 0 /\ i + 1 <= Len(args) THEN args[i + 1] ELSE Undefined

NaN == [nan |-> TRUE, n |-> 0]

Num(n) == [nan |-> FALSE, n |-> n]

(* parseInt(text, 10): the leading integer of the text, NaN without one *)
parseInt(text) ==
    CASE text = "0" -> Num(0)
      [] text = "700" -> Num(700)
      [] text = "10000" -> Num(10000)
      [] text = "10001" -> Num(10001)
      [] text = "-1" -> Num(-1)
      [] text = "7.5" -> Num(7)
      [] text = "12abc" -> Num(12)
      [] OTHER -> NaN

(* bps >= 0 on a number that may be NaN *)
geqZero(x) == ~x.nan /\ x.n >= 0

(* toNano of a decimal amount of TON *)
toNano(text) ==
    CASE text = "1" -> 1000000000
      [] text = "0.10" -> 100000000
      [] text = "0.20" -> 200000000
      [] OTHER -> 0

(* the number of seqno polls sendInternal makes at most *)
MaxPolls == 15

Throw(c, message) == [c EXCEPT !.pc = "failed", !.error = message]

(* main calls sendInternal(contract, value, body) *)
CallSendInternal(c, value, body) == [c EXCEPT !.pc = "openV5", !.value = value, !.body = body]

UsagePromote == "Usage: promote --memo ... --ref <addr> --bps <0..10000> [--pay <TON>]"

mainSetReserve(c, rest) ==
    LET minTON == getArg(rest, "--min")
        payTON == IF indexOf(rest, "--pay") > 0 THEN getArg(rest, "--pay") ELSE "0.20"
    IN  IF ~Truthy(minTON) THEN Throw(c, "Missing --min <TON>")
        ELSE CallSendInternal(c, toNano(payTON), buildSetReserve(toNano(minTON)))

(* the argument check of the promote command *)
promoteArgsAccepted(memo, ref, bps) == ~(~Truthy(memo) \/ ~Truthy(ref) \/ ~geqZero(bps))

mainPromote(c, rest) ==
    LET memo == getArg(rest, "--memo")
        ref == getArg(rest, "--ref")
        bpsText == getArg(rest, "--bps")
        bps == parseInt(IF Truthy(bpsText) THEN bpsText ELSE "0")
        payText == getArg(rest, "--pay")
        payTON == IF Truthy(payText) THEN payText ELSE "1"
    IN  IF ~promoteArgsAccepted(memo, ref, bps) THEN Throw(c, UsagePromote)
        ELSE IF ref \notin Identities
        THEN Throw([c EXCEPT !.built = TRUE], "Unknown address type")
        ELSE CallSendInternal([c EXCEPT !.built = TRUE], toNano(payTON),
                              buildSignalHashPromote(memo, ref, bps.n))

Main ==
    /\ cli.pc = "main"
    /\ LET cmd == IF Len(cli.argv) >= 1 THEN cli.argv[1] ELSE Undefined
           rest == IF Len(cli.argv) >= 1 THEN Tail(cli.argv) ELSE <<>>
       IN  cli' = IF cmd = "set-reserve" THEN mainSetReserve(cli, rest)
                  ELSE IF cmd = "promote" THEN mainPromote(cli, rest)
                  ELSE [cli EXCEPT !.pc = "done", !.report = "usage"]
    /\ UNCHANGED <<engineVars, codec>>

(* whether the wallet derived from the mnemonic is the expected one *)
walletMatchesAny(derived, exp) == TRUE

walletMatches(derived, exp) == raw(derived) = raw(exp)

OpenV5 ==
    /\ cli.pc = "openV5"
    /\ LET exp == AddressParse(cli.env.EXPECTED_WALLET)
           w == walletV5R1(cli.env.MNEMONIC, cli.env.NETWORK)
       IN  cli' = IF ~walletMatches(w, exp) THEN Throw(cli, "Mnemonic != EXPECTED_WALLET")
                  ELSE [cli EXCEPT !.pc = "getSeqno", !.wallet = w]
    /\ UNCHANGED <<engineVars, codec>>

GetSeqno ==
    /\ cli.pc = "getSeqno"
    /\ cli' = [cli EXCEPT !.pc = "sendTransfer", !.seqno = cli.chain]
    /\ UNCHANGED <<engineVars, codec>>

SendTransfer ==
    /\ cli.pc = "sendTransfer"
    /\ cli' = [cli EXCEPT !.pc = "poll",
                          !.sent = Append(@, [from |-> cli.wallet, seqno |-> cli.seqno,
                                              value |-> cli.value, body |-> cli.body])]
    /\ UNCHANGED <<engineVars, codec>>

(* one turn of the wait loop: sleep, read the seqno, which the network may *)
(* have advanced by then                                                   *)
pollStepRestarting(c, now) ==
    IF now > c.seqno
    THEN [c EXCEPT !.pc = "done", !.chain = now, !.polls = @ + 1, !.report = "Sent"]
    ELSE IF c.polls + 1 = MaxPolls
    THEN [c EXCEPT !.polls = 0]
    ELSE [c EXCEPT !.polls = @ + 1]

pollStep(c, now) ==
    IF now > c.seqno
    THEN [c EXCEPT !.pc = "done", !.chain = now, !.polls = @ + 1, !.report = "Sent"]
    ELSE IF c.polls + 1 = MaxPolls
    THEN [c EXCEPT !.pc = "done", !.polls = @ + 1, !.report = "pending"]
    ELSE [c EXCEPT !.polls = @ + 1]

Poll ==
    /\ cli.pc = "poll"
    /\ \E now \in {cli.chain, cli.chain + 1} : cli' = pollStep(cli, now)
    /\ UNCHANGED <<engineVars, codec>>

(* command lines *)
BpsTexts == {"0", "700", "10000", "10001", "-1", "7.5", "12abc", "abc"}

ArgLists ==
    {<<"promote", "--memo", invoiceId, "--ref", ToBId, "--bps", t>> : t \in BpsTexts}
    \cup {<<"promote", "--memo", invoiceId, "--ref", ToBId>>,
          <<"promote", "--memo", invoiceId, "--ref", ToBId, "--bps", "700", "--pay", "0.20">>,
          <<"promote", "--ref", ToBId, "--bps", "700">>,
          <<"promote", "--memo", invoiceId, "--bps", "700">>,
          <<"promote", "--memo", "", "--ref", ToBId, "--bps", "700">>,
          <<"promote", "--bps", "700", "--ref", ToBId, "--memo">>,
          <<"promote", "--memo", invoiceId, "--ref", "not-an-address", "--bps", "700">>,
          <<"set-reserve", "--min", "0.10">>,
          <<"set-reserve", "--min", "0.10", "--pay", "1">>,
          <<"set-reserve", "--pay", "1">>,
          <<"help">>,
          <<>>}

Mnemonics == {"mnemonic 1", "mnemonic 2"}

Networks == {"testnet", "mainnet"}

(* EXPECTED_WALLET, in one of its friendly forms *)
ExpectedWallets ==
    {<<walletV5R1("mnemonic 1", "testnet"), "bounceable">>,
     <<walletV5R1("mnemonic 1", "testnet"), "non-bounceable test-only">>,
     <<walletV5R1("mnemonic 2", "mainnet"), "bounceable">>}

CliInit ==
    /\ EngineAtRest
    /\ codec = CodecIdle
    /\ \E argv \in ArgLists, m \in Mnemonics, n \in Networks, e \in ExpectedWallets,
          chain \in {0, 5} :
          cli = [CliIdle EXCEPT !.pc = "main", !.argv = argv, !.chain = chain,
                                !.env = [MNEMONIC |-> m, NETWORK |-> n,
                                         EXPECTED_WALLET |-> e]]

CliNext == Main \/ OpenV5 \/ GetSeqno \/ SendTransfer \/ Poll

SpecCli == CliInit /\ [][CliNext]_vars

(* the client as node runs it: a pending continuation is eventually run *)
SpecCliFair == CliInit /\ [][CliNext]_vars /\ WF_vars(CliNext)

----------------------------------------------------------------------------
(* Properties.  Each is stated on the record of the message processed      *)
(* last: the message, the state it met (prior), the outcome, and the       *)
(* state it left.                                                          *)

Max(a, b) == IF a >= b THEN a ELSE b

IsPayment == last.payload.type \in {"Promote", "PlainComment"}

PaymentAccepted == IsPayment /\ last.outcome = "Accepted"

Qualifying == PaymentAccepted /\ last.value >= MIN_PAYMENT

SplitDone == PaymentAccepted /\ last.outbound # <<>>

(* the shortfall of the reserve met by the last message *)
Shortfall == Max(0, last.prior.minReserve - last.prior.balance)

(* floor(d * bps / 10000), written out for d >= 0 and 0 <= bps <= 10000 *)
FloorShare(d, bps) ==
    LET q == d \div 10000
        r == d % 10000
    IN  q * bps + (r * bps) \div 10000

(* C1: every split keeps both legs non-negative and forwards at most the   *)
(* distributable amount, which is at most the value attached:              *)
(* amountA >= 0, amountB >= 0, amountA + amountB <= distributable <= value *)
C1_SplitWithinValue ==
    SplitDone =>
        /\ \A i \in 1..Len(last.outbound) : last.outbound[i].amount >= 0
        /\ totalOut(last.outbound) <= last.distributable
        /\ last.distributable <= last.value

(* a split of a payment part of which went to the reserve *)
C1_Witness ==
    /\ SplitDone
    /\ last.distributable < last.value
    /\ \A i \in 1..Len(last.outbound) : last.outbound[i].amount > 0

C3_Distributable ==
    Qualifying =>
        /\ last.distributable = Max(0, last.value - Shortfall)
        /\ last.prior.balance >= last.prior.minReserve => last.distributable = last.value

(* the owner raised the reserve above the balance and the next payment     *)
(* distributed its value less the shortfall                                *)
C3_Witness ==
    /\ Qualifying
    /\ last.prior.minReserve = 400000000
    /\ last.prior.balance < last.prior.minReserve
    /\ last.distributable > 0
    /\ last.distributable = last.value - (last.prior.minReserve - last.prior.balance)

(* C4: a qualifying payment that meets a balance below the reserve and     *)
(* covers the shortfall leaves the balance at the reserve, no more and     *)
(* (there being no fees here) no less.                                     *)
C4_BalanceAtReserve ==
    (Qualifying /\ last.prior.balance < last.prior.minReserve /\ last.value >= Shortfall) =>
        /\ state.balance <= state.minReserve
        /\ state.balance = state.minReserve

C4_Witness ==
    /\ Qualifying
    /\ last.prior.balance < last.prior.minReserve
    /\ last.prior.balance > 0
    /\ last.value > Shortfall
    /\ state.balance = 400000000

C6_BoundaryQualifies ==
    /\ (/\ last.payload.type = "Promote" /\ last.value = MIN_PAYMENT
        /\ last.prior.balance >= last.prior.minReserve
        /\ 0 < last.payload.bpsB /\ last.payload.bpsB < 10000) =>
            /\ last.outcome = "Accepted"
            /\ Len(last.outbound) = 2
            /\ last.outbound[1].to = last.prior.recipientA
            /\ last.outbound[1].amount > 0
            /\ last.outbound[2].to = last.payload.recipientB
            /\ last.outbound[2].amount > 0
    /\ \A bps \in BpsChoices :
        (/\ 0 < bps /\ bps < 10000
         /\ last.body = GetContractMemo(bps, ToBId)
         /\ last.value = MIN_PAYMENT
         /\ last.prior.balance >= last.prior.minReserve) =>
            /\ last.outcome = "Accepted"
            /\ Len(last.outbound) = 2
            /\ last.outbound[1].to = ToAId /\ last.outbound[1].amount > 0
            /\ last.outbound[2].to = ToBId /\ last.outbound[2].amount > 0

C6_Witness ==
    /\ PaymentAccepted
    /\ last.payload.type = "Promote"
    /\ last.value = MIN_PAYMENT
    /\ last.prior.balance >= last.prior.minReserve
    /\ last.payload.bpsB = DEF_BPS_B
    /\ last.outbound[1].amount = 180000000
    /\ last.outbound[2].amount = 20000000

(* C7: minReserve is the initial reserve or the payload of the owner's     *)
(* most recent SetReserve; a SetReserve from anyone else is rejected as    *)
(* Unauthorized and changes nothing; a Promote or PlainComment never       *)
(* changes minReserve.                                                     *)
C7_ReserveOnlyByOwner ==
    /\ state.minReserve = ownerReserve
    /\ (last.payload.type = "SetReserve" /\ last.sender # last.prior.owner) =>
            /\ last.outcome = "Rejected"
            /\ last.reason = "Unauthorized"
            /\ state.minReserve = last.prior.minReserve
    /\ IsPayment => state.minReserve = last.prior.minReserve
    /\ state.minReserve # last.prior.minReserve =>
            /\ last.payload.type = "SetReserve"
            /\ last.sender = last.prior.owner
            /\ last.outcome = "Accepted"
            /\ state.minReserve = last.payload.minReserve

(* the owner has set the reserve, and a later SetReserve from the primary  *)
(* payee was turned away                                                   *)
C7_Witness ==
    /\ last.payload.type = "SetReserve"
    /\ last.sender = ToAId
    /\ last.payload.minReserve = 100000000
    /\ last.reason = "Unauthorized"
    /\ state.minReserve = 400000000

(* C8: a SetReserve from the owner is accepted whatever value it carries:  *)
(* minReserve becomes the payload's, nothing is sent out, the balance      *)
(* grows by the value, owner and recipientA stay; so for the message       *)
(* buildSetReserve produces for a reserve m >= 0.                          *)
C8_OwnerSetReserve ==
    /\ (last.payload.type = "SetReserve" /\ last.sender = last.prior.owner) =>
            /\ last.outcome = "Accepted"
            /\ state.minReserve = last.payload.minReserve
            /\ last.outbound = <<>>
            /\ state.balance = last.prior.balance + last.value
            /\ state.owner = last.prior.owner
            /\ state.recipientA = last.prior.recipientA
    /\ \A m \in ReserveChoices :
        (m >= 0 /\ last.body = buildSetReserve(m) /\ last.sender = OwnerId) =>
            /\ last.outcome = "Accepted"
            /\ state.minReserve = m
            /\ state.balance = last.prior.balance + last.value

(* the owner lowers the reserve with a message that carries no value *)
C8_Witness ==
    /\ last.payload.type = "SetReserve" /\ last.sender = OwnerId
    /\ last.value = 0
    /\ last.prior.minReserve = 400000000
    /\ state.minReserve = 100000000
    /\ state.balance = last.prior.balance

(* C9: a Promote with bpsB outside [0, 10000] is rejected as InvalidSplit, *)
(* whatever its value and the state it meets, and changes nothing; an      *)
(* accepted Promote has 0 <= bpsB <= 10000 and is settled with that bpsB.  *)
C9_InvalidSplitRejected ==
    /\ (last.payload.type = "Promote"
        /\ ~(0 <= last.payload.bpsB /\ last.payload.bpsB <= 10000)) =>
            /\ last.outcome = "Rejected"
            /\ last.reason = "InvalidSplit"
            /\ last.outbound = <<>>
            /\ state = last.prior
    /\ (last.payload.type = "Promote" /\ last.outcome = "Accepted") =>
            /\ 0 <= last.payload.bpsB /\ last.payload.bpsB <= 10000
    /\ \A bps \in BpsChoices :
        (/\ ~(0 <= bps /\ bps <= 10000)
         /\ last.body = buildSignalHashPromote(invoiceId, ToBId, bps)) =>
            /\ last.outcome = "Rejected"
            /\ last.reason = "InvalidSplit"

(* an out-of-range Promote whose value is under the threshold *)
C9_Witness ==
    /\ last.payload.type = "Promote"
    /\ last.reason = "InvalidSplit"
    /\ last.payload.bpsB = 10001
    /\ last.value = MIN_PAYMENT - 1
    /\ state = last.prior

(* C10: a rejected message (Unauthorized, InvalidSplit, or a body that     *)
(* does not decode) leaves the account state exactly as it was, keeps none *)
(* of the attached value and emits nothing; an accepted one changes the    *)
(* balance by the value less everything it sends out, in the one step that *)
(* emits the transfers.                                                    *)
C10_AllOrNothing ==
    /\ last.outcome = "Rejected" =>
            /\ state = last.prior
            /\ last.outbound = <<>>
            /\ last.reason \in {"Unauthorized", "InvalidSplit", "UnknownTag",
                                "Truncated", "NegativeAmount"}
    /\ last.outcome = "Accepted" =>
            /\ state.balance = last.prior.balance + last.value - totalOut(last.outbound)
            /\ state.owner = last.prior.owner
            /\ state.recipientA = last.prior.recipientA
    /\ last.outcome \in {"None", "Accepted", "Rejected"}

(* a rejected message that carried value to an account holding some *)
C10_Witness ==
    /\ last.outcome = "Rejected"
    /\ last.reason = "Unauthorized"
    /\ last.value > 0
    /\ last.prior.balance > 0
    /\ state.balance = last.prior.balance

(* the field values the wire format declares valid *)
ValidMessage(m) ==
    /\ m.type = "SetReserve" => m.minReserve >= 0
    /\ m.type = "Promote" => (0 <= m.bpsB /\ m.bpsB <= 10000)

(* C11: for every message shape and all valid field values                 *)
(* decode(encode(m)) = m; the cell of buildSetReserve opens with           *)
(* 0x5032a9ac and decodes to SetReserve, the cell of                       *)
(* buildSignalHashPromote opens with 0xccce9a8a and decodes to Promote,    *)
(* with the field values that were built in.                               *)
C11_RoundTrip ==
    (codec.pc = "decoded" /\ ValidMessage(codec.msg)) =>
        /\ codec.result.ok
        /\ codec.result.payload = codec.msg
        /\ codec.msg.type = "SetReserve" =>
              /\ <<codec.cell[1].n, codec.cell[2].n>> = <<20530, 43436>>
              /\ codec.result.payload.type = "SetReserve"
              /\ codec.result.payload.minReserve = codec.msg.minReserve
        /\ codec.msg.type = "Promote" =>
              /\ <<codec.cell[1].n, codec.cell[2].n>> = <<52430, 39562>>
              /\ codec.result.payload.type = "Promote"
              /\ codec.result.payload.memo = codec.msg.memo
              /\ codec.result.payload.recipientB = codec.msg.recipientB
              /\ codec.result.payload.bpsB = codec.msg.bpsB

(* a Promote with a memo of its own came back as it went in *)
C11_Witness ==
    /\ codec.pc = "decoded"
    /\ codec.msg = Payload("Promote", 0, "a, b% #", PayerId, 9999)
    /\ codec.result.ok
    /\ codec.result.payload = codec.msg

(* the ratio a payment is split at: its own, or the configured default *)
EffectiveBps == IF last.payload.type = "Promote" THEN last.payload.bpsB ELSE config.defaultBps

(* whole percents of a ratio, as decimal digits *)
PercentText(bps) ==
    IF bps < 100 THEN "0"
    ELSE IF bps < 800 /\ bps >= 700 THEN "7"
    ELSE IF bps < 1100 /\ bps >= 1000 THEN "10"
    ELSE IF bps = 10000 THEN "100"
    ELSE ToString(bps \div 100)

C13_ReserveNonNegative ==
    /\ state.minReserve >= 0
    /\ last.prior.minReserve >= 0
    /\ ownerReserve >= 0
    /\ (last.sender = last.prior.owner /\ last.body = buildSetReserve(-1)) =>
          state.minReserve = last.prior.minReserve

(* the owner sent a SetReserve of -1 nanoton after raising the floor *)
C13_Witness ==
    /\ last.sender = state.owner
    /\ last.body = buildSetReserve(-1)
    /\ last.outcome = "Rejected"
    /\ last.prior.minReserve = 400000000
    /\ state.minReserve = 400000000

(* C14: owner and recipientA are fixed at construction; whatever messages  *)
(* were processed, a payment's transfer to A goes to the initial           *)
(* recipientA and a SetReserve is authorised against the initial owner.    *)
C14_IdentitiesFixed ==
    /\ state.owner = OwnerId /\ state.recipientA = ToAId
    /\ last.prior.owner = OwnerId /\ last.prior.recipientA = ToAId
    /\ SplitDone => last.outbound[1].to = ToAId
    /\ last.payload.type = "SetReserve" =>
          (last.outcome = "Accepted" <=> last.sender = OwnerId)

(* after the reserve was changed, toA itself paid and was still paid as A *)
C14_Witness ==
    /\ SplitDone
    /\ last.sender = ToAId
    /\ last.prior.minReserve = 100000000
    /\ last.prior.balance > 0
    /\ last.outbound[1].to = ToAId
    /\ state.owner = OwnerId /\ state.recipientA = ToAId

(* the leading 32 bits of the message processed last *)
LastTag == IF Len(last.body) >= 2 THEN <<last.body[1].n, last.body[2].n>> ELSE <<-1, -1>>

LastDelivered == last.outcome # "None"

(* the message never reached the engine *)
TurnedAway ==
    /\ last.outcome = "Rejected"
    /\ state = last.prior
    /\ last.outbound = <<>>

(* C15 as stated: the fixture's tag 3436092042 = 52430 * 65536 + 39562 is   *)
(* one of the other tags, so a message of GetContractMemo is rejected as   *)
(* UnknownTag.                                                             *)
C15_FixtureTagUnknown ==
    (LastDelivered /\ LastTag = <<52430, 39562>>) =>
        (last.reason = "UnknownTag" /\ TurnedAway)

(* C15: decode dispatches on the leading 32-bit tag: 0x5032a9ac gives      *)
(* SetReserve, 0xccce9a8a (3436092042, the fixture's tag as well) gives    *)
(* Promote, 0 gives PlainComment, and any other tag gives UnknownTag: the  *)
(* message is rejected with no state change and no transfer.               *)
C15_TagDispatch ==
    LastDelivered =>
        /\ last.payload.type = "SetReserve" => LastTag = <<20530, 43436>>
        /\ last.payload.type = "Promote" => LastTag = <<52430, 39562>>
        /\ last.payload.type = "PlainComment" => LastTag = <<0, 0>>
        /\ (LastTag = <<20530, 43436>> /\ hasField(last.body, 3, "int257")
               /\ last.body[3].n >= 0) => last.payload.type = "SetReserve"
        /\ (\E bps \in BpsChoices : last.body \in {GetContractMemo(bps, ToBId),
                                                  buildSignalHashPromote(invoiceId, ToBId, bps)})
              => last.payload.type = "Promote"
        /\ LastTag = <<0, 0>> => last.payload.type = "PlainComment"
        /\ (Len(last.body) >= 2
               /\ LastTag \notin {<<20530, 43436>>, <<52430, 39562>>, <<0, 0>>})
              <=> last.reason = "UnknownTag"
        /\ last.reason = "UnknownTag" => TurnedAway

(* a message under 3437045386 = 0xccdd268a was turned away from an account *)
(* that holds funds                                                        *)
C15_Witness ==
    /\ LastDelivered
    /\ LastTag = <<52445, 9866>>
    /\ last.reason = "UnknownTag"
    /\ TurnedAway
    /\ last.value = 300000007
    /\ state.balance > 0

(* C16: a payment of at least MIN_PAYMENT whose whole value is taken by    *)
(* the reserve shortfall (distributable = 0) is accepted, emits no         *)
(* transfer at all, and raises the balance by the full value.              *)
C16_NothingToDistribute ==
    /\ (Qualifying /\ Shortfall >= last.value) => last.distributable = 0
    /\ (Qualifying /\ last.distributable = 0) =>
          /\ last.outcome = "Accepted"
          /\ Len(last.outbound) = 0
          /\ state.balance = last.prior.balance + last.value
          /\ state.minReserve = last.prior.minReserve
    /\ (IsPayment /\ last.value >= MIN_PAYMENT /\ EffectiveBps >= 0
           /\ EffectiveBps <= 10000 /\ Shortfall >= last.value) => Qualifying

(* 0.300000007 TON paid into an account 0.4 TON short of its reserve *)
C16_Witness ==
    /\ Qualifying
    /\ last.value = 300000007
    /\ last.prior.minReserve = 400000000
    /\ last.prior.balance = 0
    /\ last.distributable = 0
    /\ last.outbound = <<>>
    /\ state.balance = 300000007

(* the same message, had it come from another sender *)
FromSender(s) == receive(last.prior, config, s, last.value, last.body)

SameResult(r) ==
    /\ r.outcome = last.outcome
    /\ r.reason = last.reason
    /\ r.state = state
    /\ r.outbound = last.outbound

(* C17: a Promote or PlainComment is processed the same whoever sends it:  *)
(* from the same state, with the same value and payload, the owner,        *)
(* recipient A, recipient B and a stranger get the same outcome, the same  *)
(* next state and the same transfers.                                      *)
C17_SenderIndependent ==
    IsPayment => \A s \in Identities : SameResult(FromSender(s))

(* the owner's own payment was split as recipient B's or a stranger's      *)
(* would have been                                                         *)
C17_Witness ==
    /\ SplitDone
    /\ last.sender = OwnerId
    /\ last.prior.balance > 0
    /\ SameResult(FromSender(ToBId))
    /\ SameResult(FromSender(PayerId))
    /\ SameResult(FromSender(ToAId))

(* C18: funds are conserved over any sequence of messages: the balance is  *)
(* never negative and equals the initial balance plus the values of all    *)
(* accepted messages minus the amounts of all emitted transfers; what an   *)
(* accepted payment retains, value - amountA - amountB, is never negative, *)
(* so the total forwarded never exceeds the total received.                *)
C18_FundsConserved ==
    /\ state.balance >= 0
    /\ state.balance = 0 + ledger.received - ledger.forwarded
    /\ ledger.forwarded <= ledger.received
    /\ \A i \in 1..Len(last.outbound) : last.outbound[i].amount >= 0
    /\ SplitDone =>
          /\ last.value - last.outbound[1].amount - last.outbound[2].amount >= 0
          /\ state.balance - last.prior.balance =
                last.value - last.outbound[1].amount - last.outbound[2].amount
    /\ (LastDelivered /\ ~SplitDone) =>
          state.balance - last.prior.balance =
              IF last.outcome = "Accepted" THEN last.value ELSE 0

(* several payments in, part of the last one forwarded and part retained   *)
(* for a raised reserve                                                    *)
C18_Witness ==
    /\ SplitDone
    /\ ledger.received > last.value
    /\ ledger.forwarded > 0
    /\ last.outbound[1].amount + last.outbound[2].amount < last.value
    /\ last.outbound[2].amount > 0
    /\ state.balance = ledger.received - ledger.forwarded
    /\ state.balance > last.prior.balance

(* the command line of the run *)
CliCommand == IF Len(cli.argv) >= 1 THEN cli.argv[1] ELSE ""

CliStarted == cli.pc \notin {"idle", "main"}

(* the text after a flag, "" when the flag or its text is missing *)
TextAfter(flag) ==
    IF \E i \in 1..(Len(cli.argv) - 1) : cli.argv[i] = flag
    THEN cli.argv[(CHOOSE i \in 1..(Len(cli.argv) - 1) : cli.argv[i] = flag) + 1]
    ELSE ""

(* --memo or --ref is missing, or --bps is negative, not a number or      *)
(* greater than 10000                                                      *)
PromoteArgsRefused ==
    \/ TextAfter("--memo") = ""
    \/ TextAfter("--ref") = ""
    \/ TextAfter("--bps") \in {"-1", "abc", "10001"}

(* C19: the promote command builds and sends a Promote only when --memo    *)
(* and --ref are present and --bps is an integer in [0, 10000]; when memo  *)
(* or ref is missing, or bps is negative, non-numeric or greater than      *)
(* 10000, it throws the usage error before buildSignalHashPromote and      *)
(* sendInternal are called, and nothing is sent.                           *)
C19_PromoteArgsChecked ==
    (CliCommand = "promote" /\ CliStarted) =>
        /\ (cli.built \/ cli.sent # <<>>) => ~PromoteArgsRefused
        /\ PromoteArgsRefused =>
              /\ cli.pc = "failed"
              /\ cli.error = UsagePromote
              /\ ~cli.built
              /\ cli.sent = <<>>

(* the address EXPECTED_WALLET names and the address of the mnemonic's     *)
(* wallet                                                                  *)
ExpectedAddress == cli.env.EXPECTED_WALLET[1]

DerivedAddress ==
    <<"v5r1", cli.env.MNEMONIC, IF cli.env.NETWORK = "testnet" THEN -3 ELSE -257>>

(* C20: sendInternal never submits a transfer from a wallet other than the *)
(* expected one: wallet.sendTransfer is reached only after openV5 derived  *)
(* the wallet from MNEMONIC and found its address equal to                 *)
(* EXPECTED_WALLET; on a mismatch openV5 throws and nothing is sent.       *)
C20_OnlyExpectedWallet ==
    /\ \A i \in 1..Len(cli.sent) :
          cli.sent[i].from = ExpectedAddress /\ cli.sent[i].from = DerivedAddress
    /\ cli.pc \in {"getSeqno", "sendTransfer", "poll"} =>
          (cli.wallet = DerivedAddress /\ DerivedAddress = ExpectedAddress)
    /\ (cli.pc \in {"done", "failed"} /\ DerivedAddress # ExpectedAddress) =>
          /\ cli.sent = <<>>
          /\ cli.report # "Sent"
          /\ (cli.body # <<>> => (cli.pc = "failed" /\ cli.error = "Mnemonic != EXPECTED_WALLET"))

(* a transfer was submitted from the wallet that EXPECTED_WALLET names in  *)
(* its non-bounceable form                                                 *)
C20_Witness ==
    /\ Len(cli.sent) = 1
    /\ cli.env.EXPECTED_WALLET[2] = "non-bounceable test-only"
    /\ cli.sent[1].from = ExpectedAddress
    /\ cli.sent[1].body = buildSignalHashPromote(invoiceId, ToBId, 700)
    /\ cli.report = "Sent"

(* sendInternal has ended, by returning or by throwing *)
CliFinished == cli.pc \in {"done", "failed"}

(* what holds of one invocation of sendInternal at every moment *)
SendsOnce ==
    /\ Len(cli.sent) <= 1
    /\ cli.polls <= 15
    /\ cli.pc \in {"main", "openV5", "getSeqno", "sendTransfer", "failed"} =>
          (cli.sent = <<>> /\ cli.polls = 0 /\ cli.report \notin {"Sent", "pending"})
    /\ (cli.pc = "poll" \/ cli.report \in {"Sent", "pending"}) =>
          /\ Len(cli.sent) = 1
          /\ cli.sent[1].seqno = cli.seqno
          /\ cli.sent[1].seqno = IF cli.report = "Sent" THEN cli.chain - 1 ELSE cli.chain
    /\ cli.pc = "poll" => (cli.polls < 15 /\ cli.chain = cli.seqno /\ cli.report = "")
    /\ cli.report = "Sent" =>
          (cli.pc = "done" /\ cli.chain > cli.seqno /\ cli.polls >= 1)
    /\ cli.report = "pending" =>
          (cli.pc = "done" /\ cli.chain = cli.seqno /\ cli.polls = 15)

====
